---- MODULE Spec2Model ----
(***************************************************************************)
(* yavm: a minimal KVM virtual-machine monitor (src/main.rs).              *)
(*                                                                         *)
(* main() opens /dev/kvm, creates a VM, allocates and registers guest      *)
(* memory (setup_memory), loads the kernel image (load_kernel), creates    *)
(* vCPU 0 and writes its registers (setup_vcpu), then loops on             *)
(* vcpu_fd.run(), matching on the exit reason.  Every fallible call is     *)
(* followed by `?`, so a failure returns from main with an Err.  Values    *)
(* are released by Rust's scope rules: a local is dropped when the         *)
(* function that owns it returns, a by-value argument when the callee      *)
(* returns.                                                                *)
(***************************************************************************)
EXTENDS Integers, Naturals, Sequences, FiniteSets, TLC

VARIABLES
    pc,          \* position of main: the next call it makes
    result,      \* what main returned: "none" (still running), "ok", "err", "panic"
    errKind,     \* the step whose failure main propagated, "none" otherwise
    exitCode,    \* the process's exit status, NoExit while the process runs
    kvmOpen,     \* the Kvm handle (/dev/kvm) is open
    vmOpen,      \* the VmFd held by main's Arc is open
    vcpuOpen,    \* a VcpuFd for vCPU 0 is open
    vcpusMade,   \* vCPU indices created so far, in order
    regions,     \* memory slots installed in the hypervisor's VM
    guestRanges, \* the GuestMemoryMmap's ranges (gpa, size, host address)
    memMapped,   \* the GuestMemoryMmap's host mapping exists (not yet munmap'ed)
    vcpuRegs,    \* the vCPU's registers inside the hypervisor
    regs,        \* setup_vcpu's local `regs`
    regWrites,   \* number of successful set_regs calls
    loaderEntry, \* kernel_load of the loader's KernelLoaderResult, NoAddr before
    lastExit,    \* exit reason returned by the latest successful run(), "none" before
    exits,       \* all exit reasons returned by run(), in order
    resumeCalls, \* number of run() calls issued
    mmioHandled, \* number of times an MmioRead/MmioWrite arm was entered
    portHandled, \* number of times an IoIn/IoOut arm was entered
    log,         \* the fallible calls made so far, each with its outcome
    ioBuf,       \* the data buffer of the latest MMIO / port exit (in kvm_run)
    dispatched,  \* number of exit reasons the match has been applied to
    cancelAt     \* number of run() calls issued when a cancellation of the run
                 \* was requested from outside, NoCancel while none was

vars == <<pc, result, errKind, exitCode, kvmOpen, vmOpen, vcpuOpen, vcpusMade,
          regions, guestRanges, memMapped, vcpuRegs, regs, regWrites,
          loaderEntry, lastExit, exits, resumeCalls, mmioHandled, portHandled,
          log, ioBuf, dispatched, cancelAt>>

(***************************************************************************)
(* Bounds of the model.                                                    *)
(***************************************************************************)
\* the run loop is explored for at most this many run() calls
MaxResumes == 3

(***************************************************************************)
(* Program constants.                                                      *)
(***************************************************************************)
ZEROPG_START == 28672          \* 0x7000
mem_size == 1048576            \* 0x100000
guest_addr == 0                \* GuestAddress(0)
kernel_offset == 0             \* GuestAddress(0)
RegionSlot == 0                \* slot: 0
RegionFlags == 0               \* flags: 0
VcpuIndex == 0                 \* create_vcpu(0)
RFlagsReserved == 2            \* 0x0000_0000_0000_0002
ExitSuccess == 0               \* main returned Ok(())
ExitFailure == 1               \* main returned Err(_)
ExitPanic == 101               \* a panic (unwrap on None) unwound out of main

NoExit == -1
NoCancel == -1
NoAddr == -1

\* VcpuExit variants the match arms name, and two that only `_` matches
HandledExits == {"Hlt", "MmioRead", "MmioWrite", "IoIn", "IoOut", "Shutdown"}
UnhandledExits == {"Debug", "FailEntry"}
OtherExits == {"InternalError"} \cup UnhandledExits
ExitReasons == HandledExits \cup OtherExits
TerminalExits == {"Hlt", "Shutdown"}
MmioExits == {"MmioRead", "MmioWrite"}
PortExits == {"IoIn", "IoOut"}

\* contents of an exit's data buffer (one byte): 255 is all-ones
BufValues == {0, 255}
AllOnes == 255
\* load_kernel returns Result<(), _>: no boot-parameter address reaches main
LoaderBootParams == NoAddr
\* host addresses mmap may return for the guest memory
HostBases == {268435456, 536870912}
\* e_entry values of the ELF images the loader may be given
ElfEntries == {0, 4096, 1048576}
\* register state of a freshly created vCPU (x86 reset state)
ResetRegs == [rip |-> 65520, rflags |-> 2, rsi |-> 0]
NoRegs == [rip |-> 0, rflags |-> 0, rsi |-> 0]

(***************************************************************************)
(* Helpers.                                                                *)
(***************************************************************************)
Logged(op, ok) == Append(log, [op |-> op, ok |-> ok])

\* GuestMemoryMmap::from_ranges: Err on an empty list, a zero-length range
\* or overlapping ranges
RangesValid(rs) ==
    /\ Len(rs) > 0
    /\ \A i \in 1..Len(rs) : rs[i][2] > 0
    /\ \A i, j \in 1..Len(rs) :
          i < j => rs[i][1] + rs[i][2] <= rs[j][1]

\* GuestMemory::get_host_address: the host address backing a guest address,
\* NoAddr (Err) when no range contains it
get_host_address(space, addr) ==
    IF \E r \in space : r.gpa <= addr /\ addr < r.gpa + r.size
    THEN LET r == CHOOSE r \in space : r.gpa <= addr /\ addr < r.gpa + r.size
         IN  r.host + (addr - r.gpa)
    ELSE NoAddr

\* KVM_SET_USER_MEMORY_REGION: the descriptor replaces whatever the slot held
InstallRegion(rgs, d) == {r \in rgs : r.slot # d.slot} \cup {d}

\* the hypervisor keeps a VM, with its memory slots, for as long as the VM's
\* file descriptor or one of its vCPUs' is open
KernelRegions(vmFd, vcpuFd, rgs) == IF vmFd \/ vcpuFd THEN rgs ELSE {}

\* faulty variant of NextStep: the kernel is loaded before the memory is registered
NextStepLoadFirst(p) ==
    CASE p = "kvm_new" -> "create_vm"
      [] p = "create_vm" -> "from_ranges"
      [] p = "from_ranges" -> "open_kernel"
      [] p = "open_kernel" -> "elf_load"
      [] p = "elf_load" -> "set_region"
      [] p = "set_region" -> "create_vcpu"
      [] p = "create_vcpu" -> "get_regs"
      [] p = "get_regs" -> "set_regs"
      [] p = "set_regs" -> "run"
      [] p = "run" -> "dispatch"
      [] OTHER -> "run"

\* faulty variant of NextStep: run() is called again without the match
NextStepSkipDispatch(p) ==
    CASE p = "kvm_new" -> "create_vm"
      [] p = "create_vm" -> "from_ranges"
      [] p = "from_ranges" -> "set_region"
      [] p = "set_region" -> "open_kernel"
      [] p = "open_kernel" -> "elf_load"
      [] p = "elf_load" -> "create_vcpu"
      [] p = "create_vcpu" -> "get_regs"
      [] p = "get_regs" -> "set_regs"
      [] p = "set_regs" -> "run"
      [] OTHER -> "run"

\* the order of the fallible calls of main and of the functions it calls: the
\* call that follows a successful one
NextStep(p) ==
    CASE p = "kvm_new" -> "create_vm"
      [] p = "create_vm" -> "from_ranges"
      [] p = "from_ranges" -> "set_region"
      [] p = "set_region" -> "open_kernel"
      [] p = "open_kernel" -> "elf_load"
      [] p = "elf_load" -> "create_vcpu"
      [] p = "create_vcpu" -> "get_regs"
      [] p = "get_regs" -> "set_regs"
      [] p = "set_regs" -> "run"
      [] p = "run" -> "dispatch"
      [] OTHER -> "run"

\* faulty variant of DispatchBreaks: the IoOut arm breaks too
DispatchBreaksOnIoOut(reason) == reason \in {"Hlt", "Shutdown", "IoOut"}

\* faulty variant of DispatchBreaks: the Shutdown arm is missing, `_` takes it
DispatchBreaksHltOnly(reason) == reason = "Hlt"

\* faulty variant of DispatchBreaks: the fallback arm is `_ => break`
DispatchBreaksOnUnknown(reason) ==
    reason \notin {"MmioRead", "MmioWrite", "IoIn", "IoOut"}

\* faulty variant of DispatchBreaks: the loop also ends when a cancellation
\* is pending
DispatchBreaksOnCancel(reason) ==
    reason \in {"Hlt", "Shutdown"} \/ cancelAt # NoCancel

\* faulty variant of DispatchBreaks: no arm breaks
DispatchBreaksNever(reason) == FALSE

\* the arms of the match that leave the loop
DispatchBreaks(reason) == reason \in {"Hlt", "Shutdown"}

\* faulty variant of Propagate: the Err is discarded and main carries on
IgnoreError(kind) ==
    /\ pc' = NextStep(pc)
    /\ UNCHANGED <<result, errKind>>

\* faulty variant of Propagate: the `?` of from_ranges is missing, so the
\* error is kept but the region is still registered
PropagateAfterRegistering(kind) ==
    /\ pc' = IF pc = "from_ranges" THEN "set_region" ELSE "unwind"
    /\ result' = "err"
    /\ errKind' = kind

\* `?` on an Err: main returns the error
Propagate(kind) ==
    /\ pc' = "unwind"
    /\ result' = "err"
    /\ errKind' = kind

Init ==
    /\ pc = "kvm_new"
    /\ result = "none"
    /\ errKind = "none"
    /\ exitCode = NoExit
    /\ kvmOpen = FALSE
    /\ vmOpen = FALSE
    /\ vcpuOpen = FALSE
    /\ vcpusMade = <<>>
    /\ regions = {}
    /\ guestRanges = {}
    /\ memMapped = FALSE
    /\ vcpuRegs = NoRegs
    /\ regs = NoRegs
    /\ regWrites = 0
    /\ loaderEntry = NoAddr
    /\ lastExit = "none"
    /\ exits = <<>>
    /\ resumeCalls = 0
    /\ mmioHandled = 0
    /\ portHandled = 0
    /\ log = <<>>
    /\ ioBuf = 0
    /\ dispatched = 0
    /\ cancelAt = NoCancel

(***************************************************************************)
(* main, lines 115-122: open the hypervisor and create the VM.             *)
(***************************************************************************)
KvmNew(ok) ==
    /\ pc = "kvm_new"
    /\ log' = Logged("kvm_new", ok)
    /\ IF ok
       THEN /\ kvmOpen' = TRUE
            /\ pc' = NextStep(pc)
            /\ UNCHANGED <<result, errKind>>
       ELSE /\ Propagate("kvm")
            /\ UNCHANGED kvmOpen
    /\ UNCHANGED <<ioBuf, dispatched, cancelAt>>
    /\ UNCHANGED <<exitCode, vmOpen, vcpuOpen, vcpusMade, regions, guestRanges,
                   memMapped, vcpuRegs, regs, regWrites, loaderEntry, lastExit,
                   exits, resumeCalls, mmioHandled, portHandled>>

CreateVm(ok) ==
    /\ pc = "create_vm"
    /\ log' = Logged("create_vm", ok)
    /\ IF ok
       THEN /\ vmOpen' = TRUE
            /\ pc' = NextStep(pc)
            /\ UNCHANGED <<result, errKind>>
       ELSE /\ Propagate("vm")
            /\ UNCHANGED vmOpen
    /\ UNCHANGED <<ioBuf, dispatched, cancelAt>>
    /\ UNCHANGED <<exitCode, kvmOpen, vcpuOpen, vcpusMade, regions, guestRanges,
                   memMapped, vcpuRegs, regs, regWrites, loaderEntry, lastExit,
                   exits, resumeCalls, mmioHandled, portHandled>>

(***************************************************************************)
(* setup_memory, lines 61-110.                                             *)
(***************************************************************************)
\* GuestMemoryMmap::from_ranges(&[(guest_addr, mem_size)])?
FromRanges(allocOk, host) ==
    /\ pc = "from_ranges"
    /\ LET rs == <<(<<guest_addr, mem_size>>)>>
           ok == RangesValid(rs) /\ allocOk
       IN  /\ log' = Logged("from_ranges", ok)
           /\ IF ok
              THEN /\ guestRanges' =
                        {[gpa |-> rs[i][1], size |-> rs[i][2], host |-> host] :
                             i \in 1..Len(rs)}
                   /\ memMapped' = TRUE
                   /\ pc' = NextStep(pc)
                   /\ UNCHANGED <<result, errKind>>
              ELSE /\ Propagate("memory")
                   /\ UNCHANGED <<guestRanges, memMapped>>
    /\ UNCHANGED <<ioBuf, dispatched, cancelAt>>
    /\ UNCHANGED <<exitCode, kvmOpen, vmOpen, vcpuOpen, vcpusMade, regions,
                   vcpuRegs, regs, regWrites, loaderEntry, lastExit, exits,
                   resumeCalls, mmioHandled, portHandled>>

\* build the kvm_userspace_memory_region and install it; on Ok the
\* GuestMemoryMmap is returned to main, on Err (or a panic of the unwrap) the
\* local guest_memory is dropped on the way out.  The only range starts at
\* guest address 0, so the translation of GuestAddress(0) always succeeds
SetUserMemoryRegion(ok) ==
    /\ pc = "set_region"
    /\ LET hva == get_host_address(guestRanges, 0)
           d == [slot |-> RegionSlot, guest_phys_addr |-> guest_addr,
                 memory_size |-> mem_size, userspace_addr |-> hva,
                 flags |-> RegionFlags]
       IN  IF hva = NoAddr
           THEN /\ pc' = "unwind"
                /\ result' = "panic"
                /\ errKind' = "memory"
                /\ memMapped' = FALSE
                /\ log' = Logged("get_host_address", FALSE)
                /\ UNCHANGED regions
           ELSE /\ log' = Logged("set_user_memory_region", ok)
                /\ IF ok
                   THEN /\ regions' = InstallRegion(regions, d)
                        /\ pc' = NextStep(pc)
                        /\ UNCHANGED <<result, errKind, memMapped>>
                   ELSE /\ Propagate("memory")
                        /\ memMapped' = FALSE
                        /\ UNCHANGED regions
    /\ UNCHANGED <<ioBuf, dispatched, cancelAt>>
    /\ UNCHANGED <<exitCode, kvmOpen, vmOpen, vcpuOpen, vcpusMade, guestRanges,
                   vcpuRegs, regs, regWrites, loaderEntry, lastExit, exits,
                   resumeCalls, mmioHandled, portHandled>>

(***************************************************************************)
(* load_kernel, lines 34-59.  guest_mem is passed by value, so the         *)
(* GuestMemoryMmap is owned by load_kernel and dropped when it returns,    *)
(* through `?` or through Ok(()).  Dropping it unmaps the host memory.     *)
(***************************************************************************)
\* std::fs::File::open(kernel_path)?
OpenKernel(ok) ==
    /\ pc = "open_kernel"
    /\ log' = Logged("open_kernel", ok)
    /\ IF ok
       THEN /\ pc' = NextStep(pc)
            /\ UNCHANGED <<result, errKind, memMapped>>
       ELSE /\ Propagate("load")
            /\ memMapped' = FALSE
    /\ UNCHANGED <<ioBuf, dispatched, cancelAt>>
    /\ UNCHANGED <<exitCode, kvmOpen, vmOpen, vcpuOpen, vcpusMade, regions,
                   guestRanges, vcpuRegs, regs, regWrites, loaderEntry,
                   lastExit, exits, resumeCalls, mmioHandled, portHandled>>

\* Elf::load(&guest_mem, kernel_offset, ..)?; Ok(()): the KernelLoaderResult
\* (kernel_load = kernel_offset + e_entry) is discarded, then load_kernel
\* returns and guest_mem is dropped
ElfLoad(ok, e_entry) ==
    /\ pc = "elf_load"
    /\ log' = Logged("elf_load", ok)
    /\ memMapped' = FALSE
    /\ IF ok
       THEN /\ loaderEntry' = kernel_offset + e_entry
            /\ pc' = NextStep(pc)
            /\ UNCHANGED <<result, errKind>>
       ELSE /\ Propagate("load")
            /\ UNCHANGED loaderEntry
    /\ UNCHANGED <<ioBuf, dispatched, cancelAt>>
    /\ UNCHANGED <<exitCode, kvmOpen, vmOpen, vcpuOpen, vcpusMade, regions,
                   guestRanges, vcpuRegs, regs, regWrites, lastExit, exits,
                   resumeCalls, mmioHandled, portHandled>>

(***************************************************************************)
(* setup_vcpu, lines 11-32.  vcpu_fd is a local until it is returned: a    *)
(* failing get_regs or set_regs drops (closes) it.                         *)
(***************************************************************************)
CreateVcpu(ok) ==
    /\ pc = "create_vcpu"
    /\ log' = Logged("create_vcpu", ok)
    /\ IF ok
       THEN /\ vcpuOpen' = TRUE
            /\ vcpusMade' = Append(vcpusMade, VcpuIndex)
            /\ vcpuRegs' = ResetRegs
            /\ pc' = NextStep(pc)
            /\ UNCHANGED <<result, errKind>>
       ELSE /\ Propagate("vcpu")
            /\ UNCHANGED <<vcpuOpen, vcpusMade, vcpuRegs>>
    /\ UNCHANGED <<ioBuf, dispatched, cancelAt>>
    /\ UNCHANGED <<exitCode, kvmOpen, vmOpen, regions, guestRanges, memMapped,
                   regs, regWrites, loaderEntry, lastExit, exits, resumeCalls,
                   mmioHandled, portHandled>>

GetRegs(ok) ==
    /\ pc = "get_regs"
    /\ log' = Logged("get_regs", ok)
    /\ IF ok
       THEN /\ regs' = vcpuRegs
            /\ pc' = NextStep(pc)
            /\ UNCHANGED <<result, errKind, vcpuOpen>>
       ELSE /\ Propagate("vcpu")
            /\ vcpuOpen' = FALSE
            /\ UNCHANGED regs
    /\ UNCHANGED <<ioBuf, dispatched, cancelAt>>
    /\ UNCHANGED <<exitCode, kvmOpen, vmOpen, vcpusMade, regions, guestRanges,
                   memMapped, vcpuRegs, regWrites, loaderEntry, lastExit,
                   exits, resumeCalls, mmioHandled, portHandled>>

\* faulty variant of BootRegs: rsi is left as get_regs returned it
BootRegsNoRsi(r) == [r EXCEPT !.rip = kernel_offset,
                              !.rflags = RFlagsReserved]

\* the three assignments to the local `regs`
BootRegs(r) == [r EXCEPT !.rip = kernel_offset,
                         !.rflags = RFlagsReserved,
                         !.rsi = ZEROPG_START]

\* regs.rip = kernel_offset.0; regs.rflags = 2; regs.rsi = ZEROPG_START;
\* vcpu_fd.set_regs(&regs)?; Ok(vcpu_fd)
SetRegs(ok) ==
    /\ pc = "set_regs"
    /\ log' = Logged("set_regs", ok)
    /\ regs' = BootRegs(regs)
    /\ IF ok
       THEN /\ vcpuRegs' = regs'
            /\ regWrites' = regWrites + 1
            /\ pc' = NextStep(pc)
            /\ UNCHANGED <<result, errKind, vcpuOpen>>
       ELSE /\ Propagate("vcpu")
            /\ vcpuOpen' = FALSE
            /\ UNCHANGED <<vcpuRegs, regWrites>>
    /\ UNCHANGED <<ioBuf, dispatched, cancelAt>>
    /\ UNCHANGED <<exitCode, kvmOpen, vmOpen, vcpusMade, regions, guestRanges,
                   memMapped, loaderEntry, lastExit, exits, resumeCalls,
                   mmioHandled, portHandled>>

(***************************************************************************)
(* main, lines 137-155: the run loop.                                      *)
(***************************************************************************)
\* the buffer an exit carries: for a read it is the hypervisor's buffer with
\* whatever it held, for a write the bytes the guest wrote
ExitBuffer(reason) ==
    IF reason \in MmioExits \cup PortExits
    THEN \E b \in BufValues : ioBuf' = b
    ELSE UNCHANGED ioBuf

\* a dispatch is counted when the run() call before it was counted
Counted(n) == IF dispatched < resumeCalls THEN n + 1 ELSE n

\* faulty variant of Run: a failed run() is retried instead of returned
RunRetriesOnError(ok, reason) ==
    /\ pc = "run"
    /\ resumeCalls < MaxResumes
    /\ log' = Logged("run", ok)
    /\ resumeCalls' = resumeCalls + 1
    /\ IF ok
       THEN /\ lastExit' = reason
            /\ exits' = Append(exits, reason)
            /\ ExitBuffer(reason)
            /\ pc' = NextStep(pc)
       ELSE /\ UNCHANGED <<pc, lastExit, exits, ioBuf>>
    /\ UNCHANGED <<result, errKind, dispatched, cancelAt>>
    /\ UNCHANGED <<exitCode, kvmOpen, vmOpen, vcpuOpen, vcpusMade, regions,
                   guestRanges, memMapped, vcpuRegs, regs, regWrites,
                   loaderEntry, mmioHandled, portHandled>>

\* vcpu_fd.run()?
Run(ok, reason) ==
    /\ pc = "run"
    /\ resumeCalls < MaxResumes
    /\ log' = Logged("run", ok)
    /\ resumeCalls' = resumeCalls + 1
    /\ IF ok
       THEN /\ lastExit' = reason
            /\ exits' = Append(exits, reason)
            /\ ExitBuffer(reason)
            /\ pc' = NextStep(pc)
            /\ UNCHANGED <<result, errKind>>
       ELSE /\ Propagate("run")
            /\ UNCHANGED <<lastExit, exits, ioBuf>>
    /\ UNCHANGED <<dispatched, cancelAt>>
    /\ UNCHANGED <<exitCode, kvmOpen, vmOpen, vcpuOpen, vcpusMade, regions,
                   guestRanges, memMapped, vcpuRegs, regs, regWrites,
                   loaderEntry, mmioHandled, portHandled>>

\* faulty variant of Dispatch: the I/O arms write the vCPU's registers again
DispatchResetsRegs ==
    /\ pc = "dispatch"
    /\ IF DispatchBreaks(lastExit)
       THEN /\ pc' = "unwind"
            /\ result' = "ok"
       ELSE /\ pc' = "run"
            /\ UNCHANGED result
    /\ mmioHandled' = IF lastExit \in MmioExits THEN Counted(mmioHandled) ELSE mmioHandled
    /\ portHandled' = IF lastExit \in PortExits THEN Counted(portHandled) ELSE portHandled
    /\ dispatched' = Counted(dispatched)
    /\ regWrites' = IF lastExit \in MmioExits \cup PortExits
                    THEN regWrites + 1 ELSE regWrites
    /\ vcpuRegs' = IF lastExit \in MmioExits \cup PortExits
                   THEN BootRegs(vcpuRegs) ELSE vcpuRegs
    /\ UNCHANGED <<ioBuf, cancelAt>>
    /\ UNCHANGED <<errKind, exitCode, kvmOpen, vmOpen, vcpuOpen, vcpusMade,
                   regions, guestRanges, memMapped, regs,
                   loaderEntry, lastExit, exits, resumeCalls, log>>

\* the match on the exit reason: Hlt and Shutdown break (main returns
\* Ok(())), the four I/O arms are empty, everything else continues
Dispatch ==
    /\ pc = "dispatch"
    /\ IF DispatchBreaks(lastExit)
       THEN /\ pc' = "unwind"
            /\ result' = "ok"
       ELSE /\ pc' = "run"
            /\ UNCHANGED result
    /\ mmioHandled' = IF lastExit \in MmioExits THEN Counted(mmioHandled) ELSE mmioHandled
    /\ portHandled' = IF lastExit \in PortExits THEN Counted(portHandled) ELSE portHandled
    /\ dispatched' = Counted(dispatched)
    /\ UNCHANGED <<ioBuf, cancelAt>>
    /\ UNCHANGED <<errKind, exitCode, kvmOpen, vmOpen, vcpuOpen, vcpusMade,
                   regions, guestRanges, memMapped, vcpuRegs, regs, regWrites,
                   loaderEntry, lastExit, exits, resumeCalls, log>>

(***************************************************************************)
(* main returns (line 157, or any `?`): its locals vcpu_fd, vm_fd and kvm  *)
(* are dropped, which closes their file descriptors; the hypervisor        *)
(* destroys the VM, its vCPUs and its memory slots once the last of them   *)
(* is closed.  The process exits with the status of main's result.         *)
(***************************************************************************)
\* faulty variant of ExitStatus: the process exits 0 whatever main returned
ExitStatusAlwaysZero(r, kind) == ExitSuccess

\* Termination for Result<(), E>: the status depends on Ok/Err alone, never
\* on the error's kind
ExitStatus(r, kind) ==
    CASE r = "ok" -> ExitSuccess
      [] r = "err" -> ExitFailure
      [] OTHER -> ExitPanic

\* faulty variant of DroppedAtReturn: the VmFd is leaked (a forgotten Arc clone)
DroppedAtReturnLeakVm == {"vcpu_fd", "kvm"}

\* main's locals that own a file descriptor, all in scope until main returns
DroppedAtReturn == {"vcpu_fd", "vm_fd", "kvm"}

MainReturn ==
    /\ pc = "unwind"
    /\ vcpuOpen' = (vcpuOpen /\ "vcpu_fd" \notin DroppedAtReturn)
    /\ vmOpen' = (vmOpen /\ "vm_fd" \notin DroppedAtReturn)
    /\ kvmOpen' = (kvmOpen /\ "kvm" \notin DroppedAtReturn)
    /\ regions' = KernelRegions(vmOpen', vcpuOpen', regions)
    /\ UNCHANGED memMapped
    /\ exitCode' = ExitStatus(result, errKind)
    /\ pc' = "exited"
    /\ UNCHANGED <<result, errKind, vcpusMade, guestRanges, vcpuRegs, regs,
                   regWrites, loaderEntry, lastExit, exits, resumeCalls,
                   mmioHandled, portHandled, log, ioBuf, dispatched,
                   cancelAt>>

\* the same run() call with no bound on the iterations: the counters and the
\* recorded history are left as they are
RunLive(ok, reason) ==
    /\ pc = "run"
    /\ IF ok
       THEN /\ lastExit' = reason
            /\ ExitBuffer(reason)
            /\ pc' = NextStep(pc)
            /\ UNCHANGED <<result, errKind>>
       ELSE /\ Propagate("run")
            /\ UNCHANGED <<lastExit, ioBuf>>
    /\ UNCHANGED <<exitCode, kvmOpen, vmOpen, vcpuOpen, vcpusMade, regions,
                   guestRanges, memMapped, vcpuRegs, regs, regWrites,
                   loaderEntry, exits, resumeCalls, mmioHandled, portHandled,
                   log, dispatched, cancelAt>>

\* the environment asks for the run to be cancelled while main is in (or
\* about to enter) a run() call; no statement of main reads or writes such a
\* flag
RequestCancel ==
    /\ pc = "run"
    /\ cancelAt = NoCancel
    /\ cancelAt' = resumeCalls
    /\ UNCHANGED <<pc, result, errKind, exitCode, kvmOpen, vmOpen, vcpuOpen,
                   vcpusMade, regions, guestRanges, memMapped, vcpuRegs, regs,
                   regWrites, loaderEntry, lastExit, exits, resumeCalls,
                   mmioHandled, portHandled, log, ioBuf, dispatched>>

Construct ==
    \/ \E ok \in BOOLEAN : KvmNew(ok)
    \/ \E ok \in BOOLEAN : CreateVm(ok)
    \/ \E ok \in BOOLEAN, host \in HostBases : FromRanges(ok, host)
    \/ \E ok \in BOOLEAN : SetUserMemoryRegion(ok)
    \/ \E ok \in BOOLEAN : OpenKernel(ok)
    \/ \E ok \in BOOLEAN, e \in ElfEntries : ElfLoad(ok, e)
    \/ \E ok \in BOOLEAN : CreateVcpu(ok)
    \/ \E ok \in BOOLEAN : GetRegs(ok)
    \/ \E ok \in BOOLEAN : SetRegs(ok)

Next ==
    \/ Construct
    \/ \E ok \in BOOLEAN, reason \in ExitReasons : Run(ok, reason)
    \/ Dispatch
    \/ MainReturn
    \/ RequestCancel

Spec == Init /\ [][Next]_vars

\* the loop without the bound on its iterations; main is one thread that
\* takes its next step whenever it has one, and every run() call returns
NextLive ==
    \/ Construct
    \/ \E ok \in BOOLEAN, reason \in ExitReasons : RunLive(ok, reason)
    \/ Dispatch
    \/ MainReturn
    \/ RequestCancel

LiveSpec == Init /\ [][NextLive]_vars /\ WF_vars(NextLive)

TypeOK ==
    /\ pc \in {"kvm_new", "create_vm", "from_ranges", "set_region",
               "open_kernel", "elf_load", "create_vcpu", "get_regs",
               "set_regs", "run", "dispatch", "unwind", "exited"}
    /\ result \in {"none", "ok", "err", "panic"}
    /\ exitCode \in {NoExit, ExitSuccess, ExitFailure, ExitPanic}
    /\ resumeCalls \in 0..MaxResumes
    /\ exits \in Seq(ExitReasons)

(***************************************************************************)
(* Properties of the run loop.                                             *)
(***************************************************************************)
Returned == pc \in {"unwind", "exited"}

Count(S, sq) == Cardinality({i \in DOMAIN sq : sq[i] \in S})

\* C1: once main has returned, it returned Ok(()) if and only if the exit
\* reason run() returned last is Hlt or Shutdown; dispatching Hlt or Shutdown
\* leaves the loop at once with Ok(()), and dispatching any other reason
\* never yields Ok(()).
C1_SuccessIffHaltOrShutdown ==
    /\ [](Returned => (result = "ok" <=> lastExit \in TerminalExits))
    /\ [][pc = "dispatch" =>
            IF lastExit \in TerminalExits
            THEN pc' = "unwind" /\ result' = "ok"
            ELSE result' # "ok" /\ pc' # "unwind"]_vars

C1_Witness ==
    /\ pc = "exited"
    /\ result = "ok"
    /\ Len(exits) = 3
    /\ exits[3] = "Shutdown"
    /\ exits[1] = "InternalError"

\* C2: when the loop has ended on the first Hlt or Shutdown of the exit
\* reasons run() returned, at position k, exactly k run() calls were issued,
\* the MMIO arms were entered once per MmioRead/MmioWrite and the port arms
\* once per IoIn/IoOut among the first k-1 exits; no run() call is issued
\* once main has returned.
C2_ScriptedExits ==
    /\ [](result = "ok" =>
            /\ exits # <<>>
            /\ exits[Len(exits)] \in TerminalExits
            /\ \A i \in 1..(Len(exits) - 1) : exits[i] \notin TerminalExits
            /\ resumeCalls = Len(exits)
            /\ mmioHandled = Count(MmioExits, SubSeq(exits, 1, Len(exits) - 1))
            /\ portHandled = Count(PortExits, SubSeq(exits, 1, Len(exits) - 1)))
    /\ [][Returned => resumeCalls' = resumeCalls /\ exits' = exits]_vars

C2_Witness ==
    /\ pc = "exited"
    /\ exits = <<"MmioRead", "IoOut", "Hlt">>
    /\ resumeCalls = 3
    /\ mmioHandled = 1
    /\ portHandled = 1

\* C3 (as claimed): once the exit reason InternalError has been dispatched,
\* main has returned with an error; the loop is never back at run().
C3_InternalErrorFatal ==
    (lastExit = "InternalError" /\ pc # "dispatch") =>
        (Returned /\ result = "err")

(***************************************************************************)
(* Properties of the construction sequence.                                *)
(***************************************************************************)
\* every call of `later` is preceded by a successful call of `earlier`
OkBefore(earlier, later) ==
    \A j \in DOMAIN log :
        log[j].op = later =>
            \E i \in 1..(j - 1) : log[i].op = earlier /\ log[i].ok

ConstructionOps ==
    {"kvm_new", "create_vm", "from_ranges", "get_host_address",
     "set_user_memory_region", "open_kernel", "elf_load", "create_vcpu",
     "get_regs", "set_regs"}

\* C4: memory is allocated and registered before the loader is invoked, the
\* loader has succeeded before the vCPU is created, and registration and the
\* vCPU's register write have succeeded before the first run().
C4_ConstructionOrder ==
    /\ OkBefore("from_ranges", "set_user_memory_region")
    /\ OkBefore("set_user_memory_region", "open_kernel")
    /\ OkBefore("set_user_memory_region", "elf_load")
    /\ OkBefore("open_kernel", "elf_load")
    /\ OkBefore("elf_load", "create_vcpu")
    /\ OkBefore("create_vcpu", "set_regs")
    /\ OkBefore("set_user_memory_region", "run")
    /\ OkBefore("set_regs", "run")

C4_Witness ==
    /\ pc = "dispatch"
    /\ resumeCalls = 1
    /\ Len(log) = 10

\* C5: a failed construction step is the last call main makes: no later
\* construction step runs and no run() is ever issued.
C5_FailureAborts ==
    \A i \in DOMAIN log :
        (log[i].op \in ConstructionOps /\ ~log[i].ok) =>
            /\ i = Len(log)
            /\ resumeCalls = 0
            /\ Returned
            /\ result # "ok"

C5_Witness ==
    /\ pc = "exited"
    /\ log # <<>>
    /\ log[Len(log)] = [op |-> "set_regs", ok |-> FALSE]
    /\ resumeCalls = 0

\* C6 (as claimed): while a memory region is registered and main has not
\* returned, the host memory the region points at is still mapped.
C6_BackingOutlivesRegistration ==
    (regions # {} /\ ~Returned) => memMapped

\* C7 (as claimed): once the vCPU's registers have been written, its
\* instruction pointer is the entry point the loader returned.
C7_RipIsLoaderEntry ==
    regWrites > 0 => vcpuRegs.rip = loaderEntry

(***************************************************************************)
(* Properties of the process's exit.                                       *)
(***************************************************************************)
FailureCategories == {"memory", "load", "vcpu", "run"}

\* C8 (as claimed): the exit code is 0 exactly when the guest ended with Hlt
\* or Shutdown, and the exit code of a failure is one that no other failure
\* category gets.
C8_ExitCodePerCategory ==
    pc = "exited" =>
        /\ (exitCode = ExitSuccess <=> lastExit \in TerminalExits)
        /\ errKind \in FailureCategories =>
              \A k \in FailureCategories \ {errKind} :
                  exitCode # ExitStatus("err", k)

\* C8 (amended): the exit code is 0 exactly when the guest ended with Hlt or
\* Shutdown and is the same non-zero code, 1, after every construction or
\* run failure, whatever its category.
C8_ExitCodeZeroIffHalt ==
    pc = "exited" =>
        /\ (exitCode = ExitSuccess <=> lastExit \in TerminalExits)
        /\ (exitCode = ExitSuccess <=> result = "ok")
        /\ result # "ok" => (exitCode # 0 /\ exitCode = ExitFailure)

C8_Witness ==
    /\ pc = "exited"
    /\ errKind = "run"
    /\ exitCode = ExitFailure
    /\ resumeCalls = 2

\* C9: when main has returned, on success or on any failure, the VM's file
\* descriptor is closed, no vCPU is open and the hypervisor holds no memory
\* region of the VM.
C9_NothingLeftBehind ==
    pc = "exited" =>
        /\ ~vmOpen
        /\ ~vcpuOpen
        /\ ~kvmOpen
        /\ regions = {}

C9_Witness ==
    /\ pc = "exited"
    /\ result = "err"
    /\ errKind = "run"
    /\ vcpusMade # <<>>
    /\ \E i \in DOMAIN log : log[i] = [op |-> "set_user_memory_region", ok |-> TRUE]

\* C10: dispatching an exit reason that no arm names (other than
\* InternalError) takes the loop back to run() with no result and no error.
C10_UnhandledContinues ==
    [][(pc = "dispatch" /\ lastExit \in UnhandledExits) =>
          (pc' = "run" /\ result' = "none" /\ errKind' = "none")]_vars

C10_Witness ==
    /\ pc = "run"
    /\ result = "none"
    /\ exits = <<"Debug", "FailEntry">>
    /\ resumeCalls = 2

(***************************************************************************)
(* Properties of the I/O arms and of cancellation.                         *)
(***************************************************************************)
ReadExits == {"MmioRead", "IoIn"}

\* the latest exit reason has been through the match and the loop goes on
DispatchedLast ==
    /\ exits # <<>>
    /\ dispatched = Len(exits)
    /\ result = "none"

\* C11 (as claimed): main emulates no device, so every address and port is
\* unclaimed: once an MMIO or port exit has been dispatched the loop is back
\* at run(), and after a read exit the data buffer holds all-ones.
C11_UnclaimedReadsAllOnes ==
    (DispatchedLast /\ lastExit \in MmioExits \cup PortExits) =>
        /\ pc = "run"
        /\ lastExit \in ReadExits => ioBuf = AllOnes

CancelRequested == cancelAt # NoCancel

\* C12 (as claimed): once cancellation has been requested, at most the
\* run() call in flight completes: no run() call is issued after its exit
\* reason has been dispatched.
C12_CancelStopsLoop ==
    CancelRequested =>
        /\ resumeCalls <= cancelAt + 1
        /\ (resumeCalls = cancelAt + 1 /\ DispatchedLast) => Returned

\* C12 (amended): a cancellation request changes nothing in the loop: with
\* the request pending, dispatching Hlt or Shutdown ends the loop with
\* Ok(()) and dispatching any other exit reason goes back to run().
C12_CancelIgnored ==
    [][(CancelRequested /\ pc = "dispatch" /\ pc' # pc) =>
          IF lastExit \in TerminalExits
          THEN pc' = "unwind" /\ result' = "ok"
          ELSE pc' = "run" /\ result' = "none"]_vars

C12_Witness ==
    /\ cancelAt = 0
    /\ resumeCalls = 3
    /\ pc = "dispatch"
    /\ exits = <<"MmioWrite", "Debug", "IoIn">>

C14_AllocFailureRegistersNothing ==
    \A i \in DOMAIN log :
        log[i] = [op |-> "from_ranges", ok |-> FALSE] =>
            /\ i = Len(log)
            /\ \A j \in DOMAIN log : log[j].op # "set_user_memory_region"
            /\ regions = {}
            /\ Returned
            /\ result = "err"
            /\ errKind = "memory"

C14_Witness ==
    /\ pc = "exited"
    /\ log = <<[op |-> "kvm_new", ok |-> TRUE], [op |-> "create_vm", ok |-> TRUE],
               [op |-> "from_ranges", ok |-> FALSE]>>
    /\ exitCode = 1

\* the ranges of the guest address space while it exists
LiveRanges == IF memMapped THEN guestRanges ELSE {}

\* C15 (as claimed): every registered region has a slot no other registered
\* region has, its guest address and length are those of a range of the guest
\* address space, and its host address is the translation of that range's
\* start.
C15_RegionsMatchAddressSpace ==
    \A r \in regions :
        /\ \A q \in regions : q.slot = r.slot => q = r
        /\ \E g \in LiveRanges :
              /\ g.gpa = r.guest_phys_addr
              /\ g.size = r.memory_size
              /\ r.userspace_addr = get_host_address(LiveRanges, g.gpa)

(***************************************************************************)
(* Properties of the loop's sequencing.                                    *)
(***************************************************************************)
FailedRuns == Cardinality({i \in DOMAIN log : log[i] = [op |-> "run", ok |-> FALSE]})

\* C16: run() and the match alternate: at most one returned exit reason is
\* waiting for the match, none is when the loop is at run(), no exit reason
\* goes through the match twice, and a run() call is issued only when every
\* earlier call has returned and every returned exit reason has been
\* dispatched.
C16_ResumeDispatchAlternate ==
    /\ [](/\ dispatched <= Len(exits)
          /\ Len(exits) <= dispatched + 1
          /\ pc = "run" => dispatched = Len(exits)
          /\ pc = "dispatch" => Len(exits) = dispatched + 1
          /\ resumeCalls = Len(exits) + FailedRuns)
    /\ [][resumeCalls' # resumeCalls =>
            (dispatched = Len(exits) /\ resumeCalls' = resumeCalls + 1
                /\ dispatched' = dispatched)]_vars
    /\ [][dispatched' # dispatched =>
            (dispatched' = Len(exits) /\ exits' = exits
                /\ resumeCalls' = resumeCalls)]_vars

C16_Witness ==
    /\ pc = "run"
    /\ resumeCalls = 2
    /\ Len(exits) = 2
    /\ dispatched = 2

\* C17: the loop has no bound of its own: dispatching an exit reason other
\* than Hlt and Shutdown always goes back to run(), whatever the number of
\* iterations so far; and, every run() returning, a returned Hlt or Shutdown
\* and a failed run() each lead to the end of main.
C17_NoInternalBound ==
    /\ [][(pc = "dispatch" /\ lastExit \notin TerminalExits /\ pc' # pc) =>
             (pc' = "run" /\ result' = "none")]_vars
    /\ [](Returned => (lastExit \in TerminalExits \/ result # "ok"))
    /\ (pc = "dispatch" /\ lastExit \in TerminalExits) ~> (pc = "exited" /\ result = "ok")
    /\ (errKind = "run") ~> (pc = "exited" /\ result = "err")

C17_Witness ==
    /\ pc = "exited"
    /\ result = "ok"
    /\ lastExit = "Hlt"
    /\ ioBuf = 255
    /\ resumeCalls = 0

\* C18: a failed run() is the last call main makes: main returns that error,
\* no arm of the match is entered for that iteration and no further run() is
\* issued.
C18_RunErrorEndsLoop ==
    \A i \in DOMAIN log :
        log[i] = [op |-> "run", ok |-> FALSE] =>
            /\ i = Len(log)
            /\ Returned
            /\ result = "err"
            /\ errKind = "run"
            /\ resumeCalls = Len(exits) + 1
            /\ dispatched = Len(exits)
            /\ mmioHandled = Count(MmioExits, exits)
            /\ portHandled = Count(PortExits, exits)

C18_Witness ==
    /\ pc = "exited"
    /\ errKind = "run"
    /\ exits = <<"MmioRead">>
    /\ mmioHandled = 1
    /\ resumeCalls = 2

\* C19: at most one vCPU, of index 0, is ever created and its registers are
\* written at most once; both have happened exactly once before the first
\* run(); no step of the loop creates a vCPU, writes its registers or changes
\* the registered regions.
C19_LoopLeavesVcpuAndMemory ==
    /\ [](/\ Len(vcpusMade) <= 1
          /\ \A i \in DOMAIN vcpusMade : vcpusMade[i] = VcpuIndex
          /\ regWrites <= 1
          /\ resumeCalls > 0 => (vcpusMade = <<VcpuIndex>> /\ regWrites = 1))
    /\ [][(pc = "run" \/ pc = "dispatch") =>
            (vcpusMade' = vcpusMade /\ regWrites' = regWrites
                /\ vcpuRegs' = vcpuRegs /\ regions' = regions)]_vars

C19_Witness ==
    /\ pc = "dispatch"
    /\ resumeCalls = 3
    /\ exits = <<"MmioRead", "IoOut", "Debug">>
    /\ regWrites = 1
    /\ vcpusMade = <<0>>
    /\ regions # {}

====
